---- MODULE Spec2Model ----
(***************************************************************************)
(* rcli: password generation (process/gen_pass.rs), the text signing       *)
(* schemes Blake3 / Ed25519 and their facade (process/text.rs), the byte   *)
(* source reader (utils.rs) and the Generate command of main.rs.           *)
(*                                                                         *)
(* Bytes and characters are integers 0..255; a byte string, a String and   *)
(* a key blob are sequences of them.                                      *)
(***************************************************************************)
EXTENDS Integers, Sequences, FiniteSets, TLC

\* ------------------------------------------------------------------ bounds

\* Longest source content the environment supplies.
MaxDataLen == 2
\* Number of distinct seeds the random sources are started from.
MaxSeed == 2
\* Largest password length requested besides the fixed ones below.
MaxPassLen == 5
\* Largest value given to a character-class flag (a u8; only 1 enables).
MaxFlag == 2
\* How many bytes beyond the required length a supplied key may have.
MaxKeyExtra == 1

\* --------------------------------------------------------- program constants

KEY_LEN == 32
SIG_LEN == 64
U8_MOD == 256

\* ------------------------------------------------------------ sequence tools

RECURSIVE SeqRange(_)
SeqRange(s) == IF s = <<>> THEN {} ELSE {Head(s)} \cup SeqRange(Tail(s))

Take(s, n) == SubSeq(s, 1, n)
Drop(s, n) == SubSeq(s, n + 1, Len(s))

\* ------------------------------------------------------------- gen_pass.rs

UPPERCASE == <<65, 66, 67, 68, 69, 70, 71, 72, 74, 75, 76, 77, 78, 80, 81, 82,
               83, 84, 85, 86, 87, 88, 89, 90>>
LOWERCASE == <<97, 98, 99, 100, 101, 102, 103, 104, 105, 106, 107, 109, 110,
               111, 112, 113, 114, 115, 116, 117, 118, 119, 120, 121, 122>>
NUMBERS == <<49, 50, 51, 52, 53, 54, 55, 56, 57>>
SYMBOLS == <<33, 64, 35, 36, 37, 94, 38, 42, 95>>

\* rand::thread_rng(): a stream of draws fixed by the seed it was started
\* from; the seed is the only nondeterminism. Draw(seed, i) is draw number i
\* (0-based) of the stream.
Draw(seed, i) == ((seed + 1) * (75 * i + 74) + i * i) % 65537

\* SliceRandom::choose and gen_range(0..n) on draw d: a position in 1..n.
ChooseIdx(n, d) == (d % n) + 1

\* The loop of lines 38-41, n times: each round pushes chars.choose(),
\* using draws k, k+1, ... of the stream.
FillChars(chars, n, seed, k) ==
    [i \in 1..n |-> chars[ChooseIdx(Len(chars), Draw(seed, k + i - 1))]]

Swap(p, i, j) == [p EXCEPT ![i] = p[j], ![j] = p[i]]

\* SliceRandom::shuffle: for i from len-1 down to 1, swap(i, gen_range(0..=i))
\* (1-based here: position i with a position in 1..i, for i from len down
\* to 2). ShuffleRange does the rounds hi, hi-1, ..., lo; round i uses draw
\* k + (top - i).
RECURSIVE ShuffleRange(_, _, _, _, _, _)
ShuffleRange(p, hi, lo, top, seed, k) ==
    IF hi < lo THEN p
    ELSE IF hi = lo
    THEN Swap(p, hi, ChooseIdx(hi, Draw(seed, k + (top - hi))))
    ELSE LET mid == (hi + lo) \div 2
             q == ShuffleRange(p, hi, mid + 1, top, seed, k)
         IN  IF Len(q) = Len(p) THEN ShuffleRange(q, mid, lo, top, seed, k) ELSE q

Shuffle(p, seed, k) == ShuffleRange(p, Len(p), 2, Len(p), seed, k)

\* process_genpass. checked = TRUE is a build with overflow checks (debug),
\* FALSE a build without (release): `length - password.len() as u8` panics
\* in the first and wraps modulo 2^8 in the second.
\* The result: status "ok" (Ok), "err" (Err) or "panic"; password is the
\* string built (and printed) before the function ended, <<>> if none.
process_genpass(length, uppercase, lowercase, number, symbol, seed, checked) ==
    LET c1 == IF uppercase = 1 THEN UPPERCASE ELSE <<>>
        p1 == IF uppercase = 1
              THEN <<UPPERCASE[ChooseIdx(Len(UPPERCASE), Draw(seed, 0))]>> ELSE <<>>
        c2 == IF lowercase = 1 THEN c1 \o LOWERCASE ELSE c1
        p2 == IF lowercase = 1
              THEN p1 \o <<LOWERCASE[ChooseIdx(Len(LOWERCASE), Draw(seed, Len(p1)))]>>
              ELSE p1
        c3 == IF number = 1 THEN c2 \o NUMBERS ELSE c2
        p3 == IF number = 1
              THEN p2 \o <<NUMBERS[ChooseIdx(Len(NUMBERS), Draw(seed, Len(p2)))]>>
              ELSE p2
        chars == IF symbol = 1 THEN c3 \o SYMBOLS ELSE c3
        p4 == IF symbol = 1
              THEN p3 \o <<SYMBOLS[ChooseIdx(Len(SYMBOLS), Draw(seed, Len(p3)))]>>
              ELSE p3
        diff == length - Len(p4)
        n == diff % U8_MOD
    IN  IF diff < 0 /\ checked
        THEN [status |-> "panic", password |-> <<>>]
        ELSE IF n > 0 /\ chars = <<>>
        THEN [status |-> "panic", password |-> <<>>]
        ELSE LET filled == p4 \o FillChars(chars, n, seed, Len(p4))
                 password == Shuffle(filled, seed, Len(filled))
             IN  IF password = <<>>
                 THEN [status |-> "err", password |-> password]
                 ELSE [status |-> "ok", password |-> password]

\* ---------------------------------------------------------------- utils.rs

\* What a path names: no file (File::open and fs::read fail on it), or a
\* file with its bytes.
NoFile == [exists |-> FALSE, bytes |-> <<>>]
File(b) == [exists |-> TRUE, bytes |-> b]

\* anyhow::Result: Ok(val), Err(err) or a panic; val is a byte string here.
Ok(v) == [status |-> "ok", err |-> "", val |-> v]
Err(e) == [status |-> "err", err |-> e, val |-> <<>>]
Panic == [status |-> "panic", err |-> "", val |-> <<>>]

Cont(b) == b >= 128 /\ b <= 191

\* Length in bytes of the UTF-8 encoded character that starts s, 0 if s does
\* not start with one (what String::read_to_string accepts).
Utf8CharLen(s) ==
    LET n == Len(s)
        b1 == s[1]
    IN  IF b1 <= 127 THEN 1
        ELSE IF b1 >= 194 /\ b1 <= 223
        THEN IF n >= 2 /\ Cont(s[2]) THEN 2 ELSE 0
        ELSE IF b1 >= 224 /\ b1 <= 239
        THEN IF /\ n >= 3
                /\ Cont(s[2]) /\ Cont(s[3])
                /\ (b1 = 224 => s[2] >= 160)
                /\ (b1 = 237 => s[2] <= 159)
             THEN 3 ELSE 0
        ELSE IF b1 >= 240 /\ b1 <= 244
        THEN IF /\ n >= 4
                /\ Cont(s[2]) /\ Cont(s[3]) /\ Cont(s[4])
                /\ (b1 = 240 => s[2] >= 144)
                /\ (b1 = 244 => s[2] <= 143)
             THEN 4 ELSE 0
        ELSE 0

RECURSIVE IsUtf8(_)
IsUtf8(s) ==
    IF s = <<>> THEN TRUE
    ELSE LET k == Utf8CharLen(s)
         IN  k > 0 /\ IsUtf8(Drop(s, k))

\* The encoded characters with the White_Space property, which str::trim
\* removes from both ends.
WhiteSpace ==
    {<<9>>, <<10>>, <<11>>, <<12>>, <<13>>, <<32>>, <<194, 133>>, <<194, 160>>,
     <<225, 154, 128>>, <<226, 128, 168>>, <<226, 128, 169>>, <<226, 128, 175>>,
     <<226, 129, 159>>, <<227, 128, 128>>}
    \cup {<<226, 128, b>> : b \in 128..138}

RECURSIVE TrimStart(_)
TrimStart(s) ==
    IF \E k \in 1..3 : k <= Len(s) /\ Take(s, k) \in WhiteSpace
    THEN LET k == CHOOSE k \in 1..3 : k <= Len(s) /\ Take(s, k) \in WhiteSpace
         IN  TrimStart(Drop(s, k))
    ELSE s

RECURSIVE TrimEnd(_)
TrimEnd(s) ==
    IF \E k \in 1..3 : k <= Len(s) /\ Drop(s, Len(s) - k) \in WhiteSpace
    THEN LET k == CHOOSE k \in 1..3 : k <= Len(s) /\ Drop(s, Len(s) - k) \in WhiteSpace
         IN  TrimEnd(Take(s, Len(s) - k))
    ELSE s

Trim(s) == TrimEnd(TrimStart(s))

\* get_buf(input), src being what the reader yields: standard input for
\* "-", else the file at the path (NoFile: File::open fails). The whole
\* content is read as a String, which fails unless it is UTF-8, and the
\* String is returned trimmed.
get_buf(input, src) ==
    IF input # "-" /\ ~src.exists THEN Err("io")
    ELSE IF ~IsUtf8(src.bytes) THEN Err("io")
    ELSE Ok(Trim(src.bytes))

\* ------------------------------------------------ base64 URL_SAFE_NO_PAD

\* The URL-safe alphabet: A-Z a-z 0-9 - _
B64Char(i) ==
    IF i < 26 THEN 65 + i
    ELSE IF i < 52 THEN 97 + (i - 26)
    ELSE IF i < 62 THEN 48 + (i - 52)
    ELSE IF i = 62 THEN 45 ELSE 95

\* The sextet a character stands for, -1 if it is not in the alphabet
\* ('=', '+', '/' and everything else).
B64Index(c) ==
    IF c >= 65 /\ c <= 90 THEN c - 65
    ELSE IF c >= 97 /\ c <= 122 THEN c - 97 + 26
    ELSE IF c >= 48 /\ c <= 57 THEN c - 48 + 52
    ELSE IF c = 45 THEN 62
    ELSE IF c = 95 THEN 63
    ELSE -1

ByteAt(bytes, i) == IF i <= Len(bytes) THEN bytes[i] ELSE 0

Pow(b, e) == IF e = 0 THEN 1 ELSE IF e = 1 THEN b ELSE IF e = 2 THEN b * b ELSE b * b * b

\* URL_SAFE_NO_PAD.encode: 3 bytes to 4 characters, a final 1 or 2 bytes to
\* 2 or 3 characters, no '=' padding.
B64Encode(bytes) ==
    LET n == Len(bytes)
        r == n % 3
        m == (n \div 3) * 4 + (IF r = 0 THEN 0 ELSE r + 1)
    IN  [j \in 1..m |->
            LET g == (j - 1) \div 4
                pos == (j - 1) % 4
                v == ByteAt(bytes, 3 * g + 1) * 65536
                     + ByteAt(bytes, 3 * g + 2) * 256
                     + ByteAt(bytes, 3 * g + 3)
            IN  B64Char((v \div Pow(64, 3 - pos)) % 64)]

SextetAt(text, i) == IF i <= Len(text) THEN B64Index(text[i]) ELSE 0

\* URL_SAFE_NO_PAD.decode: an error on a character outside the alphabet
\* (padding included), on a length of 1 modulo 4, and on a last character
\* with non-zero bits beyond the last whole byte.
B64Decode(text) ==
    LET n == Len(text)
        r == n % 4
        m == (n \div 4) * 3 + (IF r = 0 THEN 0 ELSE r - 1)
    IN  IF \E i \in 1..n : B64Index(text[i]) = -1 THEN Err("decode")
        ELSE IF r = 1 THEN Err("decode")
        ELSE IF r = 2 /\ B64Index(text[n]) % 16 # 0 THEN Err("decode")
        ELSE IF r = 3 /\ B64Index(text[n]) % 4 # 0 THEN Err("decode")
        ELSE Ok([j \in 1..m |->
                    LET g == (j - 1) \div 3
                        pos == (j - 1) % 3
                        v == SextetAt(text, 4 * g + 1) * 262144
                             + SextetAt(text, 4 * g + 2) * 4096
                             + SextetAt(text, 4 * g + 3) * 64
                             + SextetAt(text, 4 * g + 4)
                    IN  (v \div Pow(256, 2 - pos)) % 256])

\* -------------------------------------------------- the two primitives

\* Two sums over the data, each byte weighted by its position.
RECURSIVE Mix(_, _, _)
Mix(data, j, w) ==
    IF j > Len(data) THEN 0
    ELSE ((data[j] + 1) * (j + w) + 3 * Mix(data, j + 1, w)) % 65521

\* blake3::keyed_hash(key, data): a 32-byte digest, a function of the key
\* and the data that tells apart the keys and the data the model uses.
keyed_hash(key, data) ==
    LET m1 == Mix(data, 1, 0)
        m2 == Mix(data, 1, 5)
        n == Len(data) + 1
    IN  [i \in 1..KEY_LEN |-> (key[i] * 31 + n * (i + 7) + m1 * (2 * i + 1) + m2) % U8_MOD]

\* SigningKey::verifying_key: the public key of a secret key.
verifying_key(sk) ==
    [i \in 1..KEY_LEN |-> IF i = 1 THEN (2 * sk[1]) % U8_MOD ELSE (sk[i] * 3 + i) % U8_MOD]

\* VerifyingKey::from_bytes accepts 32 bytes only if they are the encoding
\* of a curve point; every public key is one, not every 32 bytes are.
IsPoint(b) == b[1] % 2 = 0

\* An Ed25519 signature is R || S, 32 bytes each: R is fixed by the secret
\* key and the message, and for a public key, a message and an R exactly
\* one S verifies.
SPart(pk, data, R) == keyed_hash(pk, R \o data)
ed25519_sign(sk, data) ==
    LET R == keyed_hash(sk, data)
    IN  R \o SPart(verifying_key(sk), data, R)
ed25519_verify(pk, data, sig) ==
    Drop(sig, KEY_LEN) = SPart(pk, data, Take(sig, KEY_LEN))

\* ------------------------------------------------- text.rs: the schemes

\* Mutant of Blake3::try_new: the whole key converted, as the Ed25519
\* constructors do, so that a longer key is refused.
Blake3_try_new_Exact(key) ==
    IF Len(key) # KEY_LEN THEN Err("key") ELSE Ok(key)

\* Blake3::try_new: `&key[0..32]` panics on fewer than 32 bytes; the slice
\* of 32 bytes then always converts.
Blake3_try_new(key) ==
    IF Len(key) < KEY_LEN THEN Panic ELSE Ok(Take(key, KEY_LEN))

\* Ed25519Signer::try_new: key.try_into()? fails unless there are 32 bytes;
\* SigningKey::from_bytes accepts any 32.
Ed25519Signer_try_new(key) ==
    IF Len(key) # KEY_LEN THEN Err("key") ELSE Ok(key)

\* Ed25519Verifier::try_new: key.try_into()? as above, then
\* VerifyingKey::from_bytes(..)? fails on bytes that encode no point.
Ed25519Verifier_try_new(key) ==
    IF Len(key) # KEY_LEN THEN Err("key")
    ELSE IF ~IsPoint(key) THEN Err("key")
    ELSE Ok(key)

try_new(kind, key) ==
    IF kind = "Blake3" THEN Blake3_try_new(key)
    ELSE IF kind = "Ed25519Signer" THEN Ed25519Signer_try_new(key)
    ELSE Ed25519Verifier_try_new(key)

\* KeyLoader::load, the same for the three: fs::read(path)? then try_new.
load(kind, file) ==
    IF ~file.exists THEN Err("io") ELSE try_new(kind, file.bytes)

Blake3_sign(key, data) == Ok(keyed_hash(key, data))

\* Mutant of Blake3::verify: the signature converted to 32 bytes first, an
\* error on any other length.
Blake3_verify_TryInto(key, data, sig) ==
    IF Len(sig) # KEY_LEN THEN [status |-> "err", err |-> "sig", ok |-> FALSE]
    ELSE [status |-> "ok", err |-> "", ok |-> keyed_hash(key, data) = sig]

\* `hash == sig` compares the 32-byte digest with the slice: unequal lengths
\* compare unequal.
Blake3_verify(key, data, sig) ==
    [status |-> "ok", err |-> "", ok |-> keyed_hash(key, data) = sig]

Ed25519Signer_sign(key, data) == Ok(ed25519_sign(key, data))

\* Mutant of Ed25519Verifier::verify: the first 64 bytes of a longer
\* signature are checked.
Ed25519Verifier_verify_Prefix(key, data, sig) ==
    IF Len(sig) < SIG_LEN THEN [status |-> "err", err |-> "sig", ok |-> FALSE]
    ELSE [status |-> "ok", err |-> "",
          ok |-> ed25519_verify(key, data, Take(sig, SIG_LEN))]

\* Ed25519Verifier::verify: sig.try_into()? fails unless there are 64
\* bytes; the outcome of the check is returned as Ok(bool). Result here:
\* status and, for "ok", the boolean in ok.
Ed25519Verifier_verify(key, data, sig) ==
    IF Len(sig) # SIG_LEN THEN [status |-> "err", err |-> "sig", ok |-> FALSE]
    ELSE [status |-> "ok", err |-> "", ok |-> ed25519_verify(key, data, sig)]

\* Mutant of Blake3::generate: the password of the default length 16.
Blake3_generate_Default(seed, checked) ==
    LET r == process_genpass(16, 1, 1, 1, 1, seed, checked)
    IN  IF r.status = "ok" THEN [status |-> "ok", blobs |-> <<r.password>>]
        ELSE [status |-> r.status, blobs |-> <<>>]

\* Blake3::generate: the password of process_genpass(32, 1, 1, 1, 1), its
\* bytes the one blob. (gen_pass.rs declares Result<()> and prints the
\* password; text.rs and main.rs use the password as the value returned.)
Blake3_generate(seed, checked) ==
    LET r == process_genpass(32, 1, 1, 1, 1, seed, checked)
    IN  IF r.status = "ok" THEN [status |-> "ok", blobs |-> <<r.password>>]
        ELSE [status |-> r.status, blobs |-> <<>>]

\* SigningKey::generate(&mut OsRng): 32 random bytes.
SecretKeyOf(seed) == [i \in 1..KEY_LEN |-> Draw(seed, i) % U8_MOD]

\* Mutant of Ed25519Signer::generate: vec![pk, sk].
Ed25519Signer_generate_Swapped(seed) ==
    LET sk == SecretKeyOf(seed)
        pk == verifying_key(sk)
    IN  [status |-> "ok", blobs |-> <<pk, sk>>]

\* Ed25519Signer::generate: vec![sk, pk].
Ed25519Signer_generate(seed) ==
    LET sk == SecretKeyOf(seed)
        pk == verifying_key(sk)
    IN  [status |-> "ok", blobs |-> <<sk, pk>>]

\* process_keygen
process_keygen(format, seed, checked) ==
    IF format = "blake3" THEN Blake3_generate(seed, checked)
    ELSE Ed25519Signer_generate(seed)

\* The instance process_sign and process_verify load for a format.
SignerKind(format) == IF format = "blake3" THEN "Blake3" ELSE "Ed25519Signer"
VerifierKind(format) == IF format = "blake3" THEN "Blake3" ELSE "Ed25519Verifier"

\* process_sign(input, key, format), src being what input yields and
\* keyfile what the key path names: get_buf(input)?, <Signer>::load(key)?,
\* sign, and the signature encoded.
process_sign(input, src, keyfile, format) ==
    LET buf == get_buf(input, src)
        signer == load(SignerKind(format), keyfile)
    IN  IF buf.status # "ok" THEN buf
        ELSE IF signer.status # "ok" THEN signer
        ELSE IF format = "blake3"
        THEN Ok(B64Encode(Blake3_sign(signer.val, buf.val).val))
        ELSE Ok(B64Encode(Ed25519Signer_sign(signer.val, buf.val).val))

\* ------------------------------------------------------------------ state

VARIABLES
    gp,              \* the genpass command in progress: its options and result
    inst,            \* the scheme instance in hand (Blake3, Ed25519Signer, Ed25519Verifier)
    res,             \* the scheme call in progress: its arguments and result
    fs,              \* the key files of the output directory
    inv              \* the text command in progress: its arguments, position and result

vars == <<gp, inst, res, fs, inv>>

\* ------------------------------------------------------------- input sets

Seeds == 0..(MaxSeed - 1)

\* Characters of the strings signed: newline and 'a'.
DataChars == {10, 97}

RECURSIVE StringsUpTo(_)
StringsUpTo(n) ==
    IF n = 0 THEN {<<>>}
    ELSE LET S == StringsUpTo(n - 1)
         IN  S \cup {Append(t, c) : t \in {u \in S : Len(u) = n - 1}, c \in DataChars}

Strings == StringsUpTo(MaxDataLen)

\* Password lengths asked for: the small ones, the key length, the largest u8.
PassLens == (0..MaxPassLen) \cup {KEY_LEN, U8_MOD - 1}
Flags == 0..MaxFlag

Formats == {"blake3", "ed25519"}
SchemeKinds == {"Blake3", "Ed25519Signer", "Ed25519Verifier"}

\* The blobs the key generations return: the Blake3 keys, the Ed25519 secret
\* keys, the Ed25519 public keys.
Blake3Keys == {process_keygen("blake3", seed, c).blobs[1] : seed \in Seeds, c \in BOOLEAN}
SecretKeys == {process_keygen("ed25519", seed, c).blobs[1] : seed \in Seeds, c \in BOOLEAN}
PublicKeys == {process_keygen("ed25519", seed, c).blobs[2] : seed \in Seeds, c \in BOOLEAN}

\* A key, whole, cut short by one byte or with bytes added.
KeyVariants(b) ==
    {b, Take(b, KEY_LEN - 1)} \cup {b \o [i \in 1..e |-> 170] : e \in 1..MaxKeyExtra}

\* Key bytes handed to a constructor: no bytes at all, the variants of the
\* keys generated for it and, whole, the other half of each Ed25519 pair.
KeyInputs(kind) ==
    {<<>>} \cup
    IF kind = "Blake3" THEN UNION {KeyVariants(b) : b \in Blake3Keys}
    ELSE IF kind = "Ed25519Signer"
    THEN UNION {KeyVariants(b) : b \in SecretKeys} \cup PublicKeys
    ELSE UNION {KeyVariants(b) : b \in PublicKeys} \cup SecretKeys

\* Signature bytes handed to verify: the signatures of the strings under the
\* generated keys, each whole, cut short by one byte, one byte longer and
\* with its last byte changed, and no bytes at all.
GeneratedSigs ==
    {Blake3_sign(Blake3_try_new(k).val, d).val : k \in Blake3Keys, d \in Strings}
    \cup {Ed25519Signer_sign(Ed25519Signer_try_new(k).val, d).val :
            k \in SecretKeys, d \in Strings}

SigInputs ==
    {<<>>} \cup UNION {{s, Take(s, Len(s) - 1), Append(s, 0),
                         [s EXCEPT ![Len(s)] = (s[Len(s)] + 1) % U8_MOD]} :
                       s \in GeneratedSigs}

\* What a source holds: a string, or bytes that are not UTF-8.
Contents == Strings \cup {<<255>>}

\* The sources a text command is given: standard input, or a path that
\* names a file or none.
Inputs == {"-", "msg.txt"}
SourcesOf(input) ==
    IF input = "-" THEN {File(c) : c \in Contents}
    ELSE {NoFile} \cup {File(c) : c \in Contents}

\* The key paths: the three that Generate writes and a 31-byte file.
KeyFiles == {"blake3.key", "ed25519.sk", "ed25519.pk"}
KeyPaths == KeyFiles \cup {"short.key"}
ShortKey == [i \in 1..(KEY_LEN - 1) |-> 7]

\* Signature texts handed to process_verify: what process_sign prints for
\* the strings under the generated keys, and one of them with '=' added,
\* with a '+' in it, cut by one and by two characters, and the empty text.
SignedTexts ==
    {process_sign("msg.txt", File(c), File(k), "blake3").val :
        c \in Strings, k \in Blake3Keys}
    \cup {process_sign("msg.txt", File(c), File(k), "ed25519").val :
            c \in Strings, k \in SecretKeys}

SomeText == CHOOSE t \in SignedTexts : Len(t) = 43

SigTexts ==
    SignedTexts \cup {<<>>, Append(SomeText, 61), [SomeText EXCEPT ![1] = 43],
                      Take(SomeText, Len(SomeText) - 1),
                      Take(SomeText, Len(SomeText) - 2)}

\* ------------------------------------------------------------ idle values

NoGp == [called |-> FALSE, length |-> 0, uppercase |-> 0, lowercase |-> 0,
         number |-> 0, symbol |-> 0, status |-> "", password |-> <<>>]
NoInst == [kind |-> "none", key |-> <<>>]
NoRes == [op |-> "none", kind |-> "", key |-> <<>>, file |-> NoFile, data |-> <<>>,
          sig |-> <<>>, status |-> "", err |-> "", out |-> <<>>, ok |-> FALSE,
          blobs |-> <<>>]
NoInv == [cmd |-> "none", pc |-> "", format |-> "", input |-> "", src |-> NoFile,
          key |-> "", sigText |-> <<>>, buf |-> <<>>, sig |-> <<>>, verifier |-> <<>>,
          trace |-> <<>>, status |-> "", err |-> "", ok |-> FALSE, out |-> <<>>,
          blobs |-> <<>>]
InitFs == [f \in KeyPaths |-> IF f = "short.key" THEN File(ShortKey) ELSE NoFile]

Init ==
    /\ gp = NoGp
    /\ inst = NoInst
    /\ res = NoRes
    /\ fs = InitFs
    /\ inv = NoInv

\* ---------------------------------------------- the genpass command

\* main, SubCommand::GenPass: process_genpass on the options given, in a
\* build with overflow checks or one without.
GenPass ==
    /\ ~gp.called
    /\ \E length \in PassLens, uppercase \in Flags, lowercase \in Flags,
          number \in Flags, symbol \in Flags, seed \in Seeds, checked \in BOOLEAN :
          LET r == process_genpass(length, uppercase, lowercase, number, symbol,
                                   seed, checked)
          IN  gp' = [called |-> TRUE, length |-> length, uppercase |-> uppercase,
                     lowercase |-> lowercase, number |-> number, symbol |-> symbol,
                     status |-> r.status, password |-> r.password]
    /\ UNCHANGED <<inst, res, fs, inv>>

\* The process ends; the next command starts afresh.
GenPassExit ==
    /\ gp.called
    /\ gp' = NoGp
    /\ UNCHANGED <<inst, res, fs, inv>>

NextGenPass == GenPass \/ GenPassExit

SpecGenPass == Init /\ [][NextGenPass]_vars

\* ------------------------------------------- the schemes, called directly

\* <Scheme>::try_new(key): the instance is kept if construction succeeds.
SchemeTryNew ==
    /\ res.op = "none"
    /\ \E kind \in SchemeKinds :
       \E key \in KeyInputs(kind) :
          LET r == try_new(kind, key)
          IN  /\ inst' = IF r.status = "ok" THEN [kind |-> kind, key |-> r.val] ELSE NoInst
              /\ res' = [NoRes EXCEPT !.op = "try_new", !.kind = kind, !.key = key,
                                      !.status = r.status, !.err = r.err]
    /\ UNCHANGED <<gp, fs, inv>>

\* <Scheme>::load(path), the path naming no file or a file of key bytes.
SchemeLoad ==
    /\ res.op = "none"
    /\ \E kind \in SchemeKinds :
       \E file \in {NoFile} \cup {File(k) : k \in KeyInputs(kind)} :
          LET r == load(kind, file)
          IN  /\ inst' = IF r.status = "ok" THEN [kind |-> kind, key |-> r.val] ELSE NoInst
              /\ res' = [NoRes EXCEPT !.op = "load", !.kind = kind, !.file = file,
                                      !.status = r.status, !.err = r.err]
    /\ UNCHANGED <<gp, fs, inv>>

\* <Scheme>::generate()
SchemeGenerate ==
    /\ res.op = "none"
    /\ \E format \in Formats, seed \in Seeds, checked \in BOOLEAN :
          LET r == process_keygen(format, seed, checked)
          IN  res' = [NoRes EXCEPT !.op = "generate", !.kind = format,
                                   !.status = r.status, !.blobs = r.blobs]
    /\ UNCHANGED <<gp, inst, fs, inv>>

\* signer.sign(data) on the instance in hand.
SchemeSign ==
    /\ res.op = "none"
    /\ inst.kind \in {"Blake3", "Ed25519Signer"}
    /\ \E data \in Strings :
          LET r == IF inst.kind = "Blake3" THEN Blake3_sign(inst.key, data)
                   ELSE Ed25519Signer_sign(inst.key, data)
          IN  res' = [NoRes EXCEPT !.op = "sign", !.kind = inst.kind, !.data = data,
                                   !.status = r.status, !.err = r.err, !.out = r.val]
    /\ UNCHANGED <<gp, inst, fs, inv>>

\* verifier.verify(data, sig) on the instance in hand.
SchemeVerify ==
    /\ res.op = "none"
    /\ inst.kind \in {"Blake3", "Ed25519Verifier"}
    /\ \E data \in Strings, sig \in SigInputs :
          LET r == IF inst.kind = "Blake3" THEN Blake3_verify(inst.key, data, sig)
                   ELSE Ed25519Verifier_verify(inst.key, data, sig)
          IN  res' = [NoRes EXCEPT !.op = "verify", !.kind = inst.kind, !.data = data,
                                   !.sig = sig, !.status = r.status, !.err = r.err,
                                   !.ok = r.ok]
    /\ UNCHANGED <<gp, inst, fs, inv>>

\* The caller takes the result.
SchemeReturn ==
    /\ res.op # "none"
    /\ res' = NoRes
    /\ UNCHANGED <<gp, inst, fs, inv>>

NextScheme ==
    \/ SchemeTryNew
    \/ SchemeLoad
    \/ SchemeGenerate
    \/ SchemeSign
    \/ SchemeVerify
    \/ SchemeReturn

SpecScheme == Init /\ [][NextScheme]_vars

\* ------------------------------------------------- the text commands

\* main, TextSubCommand::Generate: process_keygen(format)?, then blob 0 is
\* written to blake3.key or ed25519.sk and blob 1 to ed25519.pk.
TextGenerate ==
    /\ inv.cmd = "none"
    /\ \E format \in Formats, seed \in Seeds, checked \in BOOLEAN :
          LET key == process_keygen(format, seed, checked)
          IN  /\ inv' = [NoInv EXCEPT !.cmd = "generate", !.pc = "done",
                                      !.format = format, !.status = key.status,
                                      !.blobs = key.blobs]
              /\ fs' = IF key.status # "ok" THEN fs
                       ELSE IF format = "blake3"
                       THEN [fs EXCEPT !["blake3.key"] = File(key.blobs[1])]
                       ELSE [fs EXCEPT !["ed25519.sk"] = File(key.blobs[1]),
                                       !["ed25519.pk"] = File(key.blobs[2])]
    /\ UNCHANGED <<gp, inst, res>>

\* main, TextSubCommand::Sign: process_sign(input, key, format)?, printed.
TextSign ==
    /\ inv.cmd = "none"
    /\ \E input \in Inputs, key \in KeyPaths, format \in Formats :
       \E src \in SourcesOf(input) :
          LET r == process_sign(input, src, fs[key], format)
          IN  inv' = [NoInv EXCEPT !.cmd = "sign", !.pc = "done", !.format = format,
                                   !.input = input, !.src = src, !.key = key,
                                   !.status = r.status, !.err = r.err, !.out = r.val]
    /\ UNCHANGED <<gp, inst, res, fs>>

\* process_verify, line 159: let buf = get_buf(input)?
VerifyGetBuf ==
    /\ inv.cmd = "none"
    /\ \E input \in Inputs, key \in KeyPaths, format \in Formats, sig \in SigTexts :
       \E src \in SourcesOf(input) :
          LET r == get_buf(input, src)
              call == [NoInv EXCEPT !.cmd = "verify", !.format = format,
                                    !.input = input, !.src = src, !.key = key,
                                    !.sigText = sig, !.trace = <<"get_buf">>]
          IN  inv' = IF r.status = "ok"
                     THEN [call EXCEPT !.pc = "decode", !.buf = r.val]
                     ELSE [call EXCEPT !.pc = "done", !.status = r.status, !.err = r.err]
    /\ UNCHANGED <<gp, inst, res, fs>>

\* Mutant of line 160: the decoding error is not returned (no `?`), and
\* process_verify goes on to load the key with no signature bytes.
VerifyDecode_NoReturn ==
    /\ inv.cmd = "verify" /\ inv.pc = "decode"
    /\ LET r == B64Decode(inv.sigText)
       IN  inv' = [inv EXCEPT !.trace = Append(@, "decode"), !.pc = "load",
                              !.sig = r.val]
    /\ UNCHANGED <<gp, inst, res, fs>>

\* line 160: let sig = URL_SAFE_NO_PAD.decode(sig)?
VerifyDecode ==
    /\ inv.cmd = "verify" /\ inv.pc = "decode"
    /\ LET r == B64Decode(inv.sigText)
           step == [inv EXCEPT !.trace = Append(@, "decode")]
       IN  inv' = IF r.status = "ok"
                  THEN [step EXCEPT !.pc = "load", !.sig = r.val]
                  ELSE [step EXCEPT !.pc = "done", !.status = r.status, !.err = r.err]
    /\ UNCHANGED <<gp, inst, res, fs>>

\* lines 163, 167: let verifier = <Verifier>::load(key)?
VerifyLoad ==
    /\ inv.cmd = "verify" /\ inv.pc = "load"
    /\ LET r == load(VerifierKind(inv.format), fs[inv.key])
           step == [inv EXCEPT !.trace = Append(@, "load")]
       IN  inv' = IF r.status = "ok"
                  THEN [step EXCEPT !.pc = "verify", !.verifier = r.val]
                  ELSE [step EXCEPT !.pc = "done", !.status = r.status, !.err = r.err]
    /\ UNCHANGED <<gp, inst, res, fs>>

\* lines 164, 168, 172: verifier.verify(buf, &sig)?, returned as Ok(verified)
VerifyCall ==
    /\ inv.cmd = "verify" /\ inv.pc = "verify"
    /\ LET r == IF inv.format = "blake3"
                THEN Blake3_verify(inv.verifier, inv.buf, inv.sig)
                ELSE Ed25519Verifier_verify(inv.verifier, inv.buf, inv.sig)
       IN  inv' = [inv EXCEPT !.trace = Append(@, "verify"), !.pc = "done",
                              !.status = r.status, !.err = r.err, !.ok = r.ok]
    /\ UNCHANGED <<gp, inst, res, fs>>

\* The command ends: main prints the result or returns the error.
TextExit ==
    /\ inv.cmd # "none" /\ inv.pc = "done"
    /\ inv' = NoInv
    /\ UNCHANGED <<gp, inst, res, fs>>

Next ==
    \/ TextGenerate
    \/ TextSign
    \/ VerifyGetBuf
    \/ VerifyDecode
    \/ VerifyLoad
    \/ VerifyCall
    \/ TextExit

Spec == Init /\ [][Next]_vars

\* ------------------------------------------------------------- properties

IsPrefix(a, b) == Len(a) <= Len(b) /\ a = Take(b, Len(a))

\* C1. Keyed-hash round trip: Blake3::try_new succeeds on every key of at
\* least 32 bytes, and on the instance it builds verify(d, sign(d)) is
\* Ok(true) for every string d.
C1_Blake3RoundTrip ==
    /\ (res.op = "try_new" /\ res.kind = "Blake3" /\ Len(res.key) >= KEY_LEN)
          => (res.status = "ok" /\ inst.kind = "Blake3")
    /\ (/\ res.op = "verify" /\ res.kind = "Blake3"
        /\ res.sig = Blake3_sign(inst.key, res.data).val)
          => (res.status = "ok" /\ res.ok)

C1_Witness ==
    /\ res.op = "verify" /\ res.kind = "Blake3"
    /\ res.data # <<>>
    /\ res.sig = Blake3_sign(inst.key, res.data).val
    /\ res.status = "ok" /\ res.ok

\* C2. Asymmetric round trip: generate() returns [sk, pk], both accepted by
\* their constructors, and the verifier built from pk answers Ok(true) to
\* the signature the signer built from sk makes over the same string.
C2_Ed25519RoundTrip ==
    /\ (res.op = "generate" /\ res.kind = "ed25519")
          => /\ res.status = "ok" /\ Len(res.blobs) = 2
             /\ Ed25519Signer_try_new(res.blobs[1]).status = "ok"
             /\ Ed25519Verifier_try_new(res.blobs[2]).status = "ok"
    /\ (res.op = "verify" /\ res.kind = "Ed25519Verifier")
          => \A seed \in Seeds :
                LET kp == Ed25519Signer_generate(seed).blobs
                    signer == Ed25519Signer_try_new(kp[1])
                    verifier == Ed25519Verifier_try_new(kp[2])
                IN  (/\ signer.status = "ok" /\ verifier.status = "ok"
                     /\ inst.key = verifier.val
                     /\ res.sig = Ed25519Signer_sign(signer.val, res.data).val)
                       => (res.status = "ok" /\ res.ok)

C2_Witness ==
    /\ res.op = "verify" /\ res.kind = "Ed25519Verifier"
    /\ res.data # <<>>
    /\ \E seed \in Seeds :
          LET kp == Ed25519Signer_generate(seed).blobs
          IN  /\ inst.key = kp[2]
              /\ res.sig = Ed25519Signer_sign(kp[1], res.data).val
    /\ res.status = "ok" /\ res.ok

\* C3. Key-length guard, as claimed: each of the three constructors, called
\* directly or through load, answers a key of fewer than 32 bytes with an
\* error result (a key format error), never with a panic or an instance.
C3_KeyLengthGuard ==
    (\/ res.op = "try_new" /\ Len(res.key) < KEY_LEN
     \/ res.op = "load" /\ res.file.exists /\ Len(res.file.bytes) < KEY_LEN)
       => (res.status = "err" /\ res.err = "key" /\ inst = NoInst)

\* The signature bytes of a format made with key k over data d, and whether
\* k is the key the verifier in hand holds.
SignatureOf(format, k, d) ==
    IF format = "blake3" THEN Blake3_sign(Blake3_try_new(k).val, d).val
    ELSE Ed25519Signer_sign(Ed25519Signer_try_new(k).val, d).val
SigningKeys(format) == IF format = "blake3" THEN Blake3Keys ELSE SecretKeys
KeyMatches(format, k, verifier) ==
    IF format = "blake3" THEN Blake3_try_new(k).val = verifier
    ELSE verifying_key(k) = verifier
SigLenOf(format) == IF format = "blake3" THEN KEY_LEN ELSE SIG_LEN

\* C4. Mismatch is Ok(false), as claimed: when process_verify has read its
\* source, decoded a signature of the scheme's length and loaded a
\* well-formed key, and the signature was made with another key or over
\* data other than the content of the source, the result is Ok(false).
C4_MismatchIsFalse ==
    (/\ inv.cmd = "verify" /\ inv.pc = "done"
     /\ inv.trace = <<"get_buf", "decode", "load", "verify">>
     /\ Len(inv.sig) = SigLenOf(inv.format)
     /\ \E k \in SigningKeys(inv.format), d \in Strings :
           /\ inv.sig = SignatureOf(inv.format, k, d)
           /\ (d # inv.src.bytes \/ ~KeyMatches(inv.format, k, inv.verifier)))
       => (inv.status = "ok" /\ ~inv.ok)

\* C5. Keyed-hash verify answers Ok(false) to every signature that differs
\* from sign(d), in length or in a byte: never an error, never a panic.
C5_Blake3VerifyFalse ==
    (/\ res.op = "verify" /\ res.kind = "Blake3"
     /\ res.sig # Blake3_sign(inst.key, res.data).val)
       => (res.status = "ok" /\ ~res.ok)

C5_Witness ==
    /\ res.op = "verify" /\ res.kind = "Blake3"
    /\ Len(res.sig) > KEY_LEN
    /\ Take(res.sig, KEY_LEN) = Blake3_sign(inst.key, res.data).val
    /\ res.status = "ok" /\ ~res.ok

\* C6. Asymmetric verify fails closed: a signature that is not 64 bytes
\* long is never answered with Ok(true) and never with a panic.
C6_Ed25519FailClosed ==
    (/\ res.op = "verify" /\ res.kind = "Ed25519Verifier"
     /\ Len(res.sig) # SIG_LEN)
       => (res.status # "panic" /\ ~(res.status = "ok" /\ res.ok))

C6_Witness ==
    /\ res.op = "verify" /\ res.kind = "Ed25519Verifier"
    /\ Len(res.sig) = SIG_LEN + 1
    /\ ed25519_verify(inst.key, res.data, Take(res.sig, SIG_LEN))
    /\ res.status = "err"

\* C7. Shape of the generated key material: Generate for blake3 returns one
\* blob, the 32 bytes of a password of process_genpass(32, 1, 1, 1, 1), and
\* main writes it to blake3.key; for ed25519 it returns two blobs of 32
\* bytes, the secret key and then its public key, written to ed25519.sk
\* and ed25519.pk.
C7_KeygenShape ==
    (inv.cmd = "generate")
       => /\ inv.status = "ok"
          /\ IF inv.format = "blake3"
             THEN /\ Len(inv.blobs) = 1
                  /\ Len(inv.blobs[1]) = KEY_LEN
                  /\ \E seed \in Seeds, checked \in BOOLEAN :
                        LET r == process_genpass(32, 1, 1, 1, 1, seed, checked)
                        IN  r.status = "ok" /\ inv.blobs[1] = r.password
                  /\ fs["blake3.key"] = File(inv.blobs[1])
             ELSE /\ Len(inv.blobs) = 2
                  /\ Len(inv.blobs[1]) = KEY_LEN
                  /\ Len(inv.blobs[2]) = KEY_LEN
                  /\ inv.blobs[2] = verifying_key(inv.blobs[1])
                  /\ fs["ed25519.sk"] = File(inv.blobs[1])
                  /\ fs["ed25519.pk"] = File(inv.blobs[2])

C7_Witness ==
    /\ inv.cmd = "generate" /\ inv.format = "blake3" /\ inv.status = "ok"
    /\ fs["blake3.key"].exists
    /\ fs["ed25519.sk"].exists /\ fs["ed25519.pk"].exists

\* C8. Full content, as claimed: sources whose contents differ in any byte
\* are signed as different messages (their signatures under one key
\* differ), and a signature process_sign makes over one source is not
\* verified against a source with other content.
C8_FullContent ==
    /\ (inv.cmd = "sign" /\ inv.status = "ok")
          => \A input1 \in Inputs :
             \A src1 \in SourcesOf(input1) :
                LET other == process_sign(input1, src1, fs[inv.key], inv.format)
                IN  (src1.bytes # inv.src.bytes /\ other.status = "ok")
                       => other.val # inv.out
    /\ (inv.cmd = "verify" /\ inv.pc = "done" /\ inv.status = "ok" /\ inv.ok)
          => \A input1 \in Inputs, k \in KeyPaths :
             \A src1 \in SourcesOf(input1) :
                LET made == process_sign(input1, src1, fs[k], inv.format)
                IN  (src1.bytes # inv.src.bytes)
                       => ~(made.status = "ok" /\ made.val = inv.sigText)

\* C9. Order of the steps of process_verify: get_buf, then decode, then
\* load, then verify, each only after the one before succeeded; with a
\* readable source and a signature text that is not padding-free URL-safe
\* base64, the key is never loaded, verify never runs, and the call ends
\* with the decoding error.
C9_VerifyOrder ==
    (inv.cmd = "verify")
       => /\ IsPrefix(inv.trace, <<"get_buf", "decode", "load", "verify">>)
          /\ (/\ get_buf(inv.input, inv.src).status = "ok"
              /\ B64Decode(inv.sigText).status # "ok")
                => /\ "load" \notin SeqRange(inv.trace)
                   /\ "verify" \notin SeqRange(inv.trace)
                   /\ inv.pc \in {"decode", "done"}
                   /\ (inv.pc = "done" => inv.status = "err" /\ inv.err = "decode")

C9_Witness ==
    /\ inv.cmd = "verify" /\ inv.pc = "done"
    /\ inv.trace = <<"get_buf", "decode">>
    /\ inv.status = "err" /\ inv.err = "decode"
    /\ ~fs[inv.key].exists

\* The characters of the classes a genpass call enabled.
EnabledChars(uppercase, lowercase, number, symbol) ==
    (IF uppercase = 1 THEN SeqRange(UPPERCASE) ELSE {})
    \cup (IF lowercase = 1 THEN SeqRange(LOWERCASE) ELSE {})
    \cup (IF number = 1 THEN SeqRange(NUMBERS) ELSE {})
    \cup (IF symbol = 1 THEN SeqRange(SYMBOLS) ELSE {})

\* C10. Exact password length, as claimed: for every length and every
\* combination of the flags process_genpass does not panic and produces a
\* password of exactly `length` characters of the enabled classes.
C10_ExactLength ==
    gp.called
       => /\ gp.status # "panic"
          /\ Len(gp.password) = gp.length
          /\ SeqRange(gp.password)
                \subseteq EnabledChars(gp.uppercase, gp.lowercase, gp.number, gp.symbol)

====
